---- MODULE Spec2Model ----
(***************************************************************************)
(* A model of the rugby-dominance-analysis repository: the two Elo rating  *)
(* engines (build_elo.py, helpers/elo.py), the dataset builder             *)
(* (build_dataset.py) and the dashboard's loader (streamlit_app.py).       *)
(*                                                                         *)
(* Numbers.  Python floats are modelled in fixed point: a rating is an     *)
(* integer number of 1/UNIT rating points, an expected score an integer    *)
(* number of 1/ONE.  10 ** y is evaluated by its exponential series in     *)
(* that fixed point (error below 2e-4 on the ratings the model reaches).   *)
(* A cell of a table is <<v>> for the value v and <<>> for NaN / NaT.      *)
(***************************************************************************)
EXTENDS Integers, Sequences, FiniteSets, TLC

VARIABLES
    prog,      \* the program (entry point) this run executes
    pc,        \* its position
    input,     \* the table it was given (a file, or the df argument): readable, cols, rows
    df,        \* its current DataFrame: a sequence of rows
    cols,      \* the column names of df
    ratings,   \* the engine's defaultdict: team -> rating, keys created on first read
    out,       \* one rating event per processed row (the code's elo_* lists);
               \* in the dashboard, what each tab has computed
    files,     \* the output files written so far: name -> rows
    err        \* the exception that ended the run, or NoError

vars == <<prog, pc, input, df, cols, ratings, out, files, err>>

----------------------------------------------------------------------------
(* Cells *)

NaN == <<>>
Num(v) == <<v>>
IsNaN(c) == c = <<>>

\* Python's comparisons: every comparison with NaN is False
PyGt(a, b) == ~IsNaN(a) /\ ~IsNaN(b) /\ a[1] > b[1]
PyLt(a, b) == ~IsNaN(a) /\ ~IsNaN(b) /\ a[1] < b[1]
PyEq(a, b) == ~IsNaN(a) /\ ~IsNaN(b) /\ a[1] = b[1]
\* arithmetic on a column: NaN propagates
PySub(a, b) == IF IsNaN(a) \/ IsNaN(b) THEN NaN ELSE Num(a[1] - b[1])

NoError == [type |-> "none", names |-> {}]
Error(t, ns) == [type |-> t, names |-> ns]

Range(s) == {s[k] : k \in 1..Len(s)}

RECURSIVE SeqsUpTo(_, _)
SeqsUpTo(S, n) ==
    IF n = 0 THEN {<<>>}
    ELSE LET shorter == SeqsUpTo(S, n - 1)
         IN  shorter \cup {Append(s, x) : s \in {t \in shorter : Len(t) = n - 1}, x \in S}

\* the rows of s in the order p (a permutation of 1..Len(s))
Permute(s, p) == [k \in 1..Len(s) |-> s[p[k]]]

----------------------------------------------------------------------------
(* Fixed point *)

UNIT == 100
ONE == 10000
LN10 == 23026
ExpTerms == 10

\* a / b rounded to nearest, symmetric in sign (as IEEE rounding is)
RoundDiv(a, b) ==
    IF a >= 0 THEN (2 * a + b) \div (2 * b) ELSE -((2 * (-a) + b) \div (2 * b))

RECURSIVE ExpSum(_, _, _)
ExpSum(x, n, term) ==
    IF n > ExpTerms THEN 0
    ELSE LET t == (term * x) \div (n * ONE) IN t + ExpSum(x, n + 1, t)

\* e ** (x / ONE), x >= 0, in 1/ONE
ExpFx(x) == ONE + ExpSum(x, 1, ONE)

\* 10 ** ((d / UNIT) / 400), in 1/ONE
Pow10(d) ==
    IF d >= 0 THEN ExpFx((d * LN10) \div (400 * UNIT))
    ELSE (ONE * ONE) \div ExpFx(((-d) * LN10) \div (400 * UNIT))

----------------------------------------------------------------------------
(* helpers/elo.py and build_elo.py: constants and pure functions *)

BASE_ELO == 1500
K == 30

K_FACTORS == [WorldCup |-> 40, Tier1_Tier1 |-> 30, Tier1_Tier2 |-> 25, Tier2_Tier2 |-> 20]

\* 1 / (1 + 10 ** ((r_b - r_a) / 400)), in 1/ONE
expected_score(r_a, r_b) == (ONE * ONE) \div (ONE + Pow10(r_b - r_a))

get_k_factor_swapped(row) ==
    IF row.competition = "World Cup" THEN K_FACTORS.WorldCup
    ELSE IF row.home_tier = 1 /\ row.away_tier = 1 THEN K_FACTORS.Tier1_Tier1
    ELSE IF row.home_tier # row.away_tier THEN K_FACTORS.Tier2_Tier2
    ELSE K_FACTORS.Tier1_Tier2

get_k_factor(row) ==
    IF row.competition = "World Cup" THEN K_FACTORS.WorldCup
    ELSE IF row.home_tier = 1 /\ row.away_tier = 1 THEN K_FACTORS.Tier1_Tier1
    ELSE IF row.home_tier # row.away_tier THEN K_FACTORS.Tier1_Tier2
    ELSE K_FACTORS.Tier2_Tier2

\* ratings = defaultdict(lambda: BASE_ELO): the value read for a key
Rating(r, t) == IF t \in DOMAIN r THEN r[t] ELSE BASE_ELO * UNIT

\* ... and the dict after the read, which creates the key
Touch(r, t) == IF t \in DOMAIN r THEN r ELSE [x \in DOMAIN r \cup {t} |-> Rating(r, x)]

\* the update with the expected score left out of it
UpdateFlat(r, k, score, expected) == r + RoundDiv(k * UNIT * (score - ONE \div 2), ONE)

\* the update with twice the K-factor
UpdateDoubleK(r, k, score, expected) == r + RoundDiv(2 * k * UNIT * (score - expected), ONE)

\* r + k * (score - expected), score and expected in 1/ONE
Update(r, k, score, expected) == r + RoundDiv(k * UNIT * (score - expected), ONE)

\* df.sort_values("date"): kind="quicksort", which does not promise the order
\* of equal keys.  Every date-sorted permutation is a possible outcome.
IsPermutation(p, n) == p \in [1..n -> 1..n] /\ \A a, b \in 1..n : a # b => p[a] # p[b]

DateSorted(s) == \A a, b \in 1..Len(s) : a < b => s[a].date[1] <= s[b].date[1]

SortOutcomes(s) ==
    {Permute(s, p) : p \in {q \in [1..Len(s) -> 1..Len(s)] :
                              IsPermutation(q, Len(s)) /\ DateSorted(Permute(s, q))}}

\* insertion of row x into the date-sorted s after every row of the same date
RECURSIVE InsertByDate(_, _)
InsertByDate(s, x) ==
    IF s = <<>> THEN <<x>>
    ELSE IF s[Len(s)].date[1] <= x.date[1] THEN Append(s, x)
    ELSE Append(InsertByDate(SubSeq(s, 1, Len(s) - 1), x), s[Len(s)])

\* the sort a stable algorithm would produce: equal dates keep input order
RECURSIVE StableSort(_)
StableSort(s) ==
    IF s = <<>> THEN <<>>
    ELSE InsertByDate(StableSort(SubSeq(s, 1, Len(s) - 1)), s[Len(s)])

----------------------------------------------------------------------------
(* build_dataset.py: derived fields of a team-perspective row *)

YearOf(date) == IF IsNaN(date) THEN NaN ELSE Num(date[1] \div 1000)

\* np.select([margin > 0, margin < 0, margin == 0], [...], default="Unknown")
DeriveResult(margin) ==
    IF PyGt(margin, Num(0)) THEN "Win"
    ELSE IF PyLt(margin, Num(0)) THEN "Loss"
    ELSE IF PyEq(margin, Num(0)) THEN "Draw"
    ELSE "Unknown"

FINAL_COLUMNS ==
    {"date", "year", "team", "opponent", "team_score", "opponent_score",
     "margin", "result", "tournament"}

\* one row of data/rugby_matches.csv: its cells derived from the fixture's
TeamRow(date, team, opponent, team_score, opponent_score, tournament) ==
    [date |-> date, year |-> YearOf(date), team |-> team, opponent |-> opponent,
     team_score |-> team_score, opponent_score |-> opponent_score,
     margin |-> PySub(team_score, opponent_score),
     result |-> DeriveResult(PySub(team_score, opponent_score)),
     tournament |-> tournament]

----------------------------------------------------------------------------
(* The inputs of the rating engines *)

MaxRows == 2

EloDates == {Num(1987100), Num(1987200)}
ScorePairs == {<<Num(1), Num(0)>>, <<Num(0), Num(1)>>, <<Num(1), Num(1)>>, <<NaN, Num(1)>>}

TeamPairs == {<<"New Zealand", "Fiji">>, <<"Fiji", "New Zealand">>, <<"Chile", "New Zealand">>}

\* team-perspective rows, as build_dataset.py writes them
TeamRowPool ==
    {TeamRow(d, p[1], p[2], sp[1], sp[2], "Test") :
        d \in EloDates, p \in TeamPairs, sp \in ScorePairs}

\* fixture rows with the columns compute_elo reads
FixturePairs == {<<"New Zealand", "Fiji">>, <<"Chile", "New Zealand">>}
FixtureContexts == {<<"World Cup", 1, 2>>, <<"Test", 1, 1>>}
FixtureScorePairs == {<<Num(1), Num(0)>>, <<Num(1), Num(1)>>, <<NaN, Num(1)>>}

FixturePool ==
    {[date |-> d, home_team |-> p[1], away_team |-> p[2],
      home_score |-> sp[1], away_score |-> sp[2],
      competition |-> c[1], home_tier |-> c[2], away_tier |-> c[3]] :
        d \in EloDates, p \in FixturePairs, sp \in FixtureScorePairs, c \in FixtureContexts}

FixtureColumns ==
    {"date", "home_team", "away_team", "home_score", "away_score",
     "competition", "home_tier", "away_tier"}

EmptyDict == [t \in {} |-> 0]

\* to_csv: the file `name` now holds `rows`
WriteFile(fs, name, rows) ==
    [f \in DOMAIN fs \cup {name} |-> IF f = name THEN rows ELSE fs[f]]

\* a readable table with these columns and rows
Table(columns, rows) == [readable |-> TRUE, cols |-> columns, rows |-> rows]

InitElo ==
    /\ prog \in {"build_elo", "compute_elo"}
    /\ input \in {Table(IF prog = "build_elo" THEN FINAL_COLUMNS ELSE FixtureColumns, rows) :
                     rows \in SeqsUpTo(IF prog = "build_elo" THEN TeamRowPool ELSE FixturePool,
                                       MaxRows)}
    /\ pc = "sort"
    /\ df = input.rows
    /\ cols = input.cols
    /\ ratings = EmptyDict
    /\ out = <<>>
    /\ files = EmptyDict
    /\ err = NoError

----------------------------------------------------------------------------
(* build_elo.py: build_elo *)

\* lines 12-19: read_csv, to_datetime, sort_values("date"), reset_index
BuildEloSort ==
    /\ prog = "build_elo" /\ pc = "sort"
    /\ df' \in SortOutcomes(df)
    /\ pc' = "loop"
    /\ UNCHANGED <<prog, input, cols, ratings, out, files, err>>

\* score of a row: 1.0 for "Win", 0.5 for "Draw", 0.0 for anything else
RowScore(row) ==
    IF row.result = "Win" THEN ONE
    ELSE IF row.result = "Draw" THEN ONE \div 2
    ELSE 0

\* the dict after one iteration: both keys were read, only team is assigned
BuildEloAssignBoth(r, team, opp, new_rating) ==
    [t \in DOMAIN r \cup {team, opp} |->
        IF t \in {team, opp} THEN new_rating ELSE Rating(r, t)]

BuildEloAssign(r, team, opp, new_rating) ==
    [t \in DOMAIN r \cup {team, opp} |->
        IF t = team THEN new_rating ELSE Rating(r, t)]

\* the event of one iteration on `row` with the dict r: the values appended to
\* elo_pre / elo_post / elo_delta, and the locals r_opp, exp, score
BuildEloEvent(r, row) ==
    LET r_team     == Rating(r, row.team)
        r_opp      == Rating(Touch(r, row.team), row.opponent)
        exp        == expected_score(r_team, r_opp)
        score      == RowScore(row)
        new_rating == Update(r_team, K, score, exp)
    IN  [elo_pre |-> r_team, elo_post |-> new_rating, elo_delta |-> new_rating - r_team,
         r_opp |-> r_opp, exp |-> exp, score |-> score]

\* lines 27-49: one iteration of the loop
BuildEloRow ==
    /\ prog = "build_elo" /\ pc = "loop" /\ Len(out) < Len(df)
    /\ LET row == df[Len(out) + 1]
           ev  == BuildEloEvent(ratings, row)
       IN  /\ out' = Append(out, ev)
           /\ ratings' = BuildEloAssign(ratings, row.team, row.opponent, ev.elo_post)
    /\ UNCHANGED <<prog, pc, input, df, cols, files, err>>

\* lines 51-56: the columns are attached and the file is written
BuildEloWrite ==
    /\ prog = "build_elo" /\ pc = "loop" /\ Len(out) = Len(df)
    /\ files' = WriteFile(files, "data/rugby_matches_with_elo.csv",
                           [k \in 1..Len(df) |-> [row |-> df[k], elo_pre |-> out[k].elo_pre,
                                                   elo_post |-> out[k].elo_post,
                                                   elo_delta |-> out[k].elo_delta]])
    /\ pc' = "done"
    /\ UNCHANGED <<prog, input, df, cols, ratings, out, err>>

----------------------------------------------------------------------------
(* helpers/elo.py: compute_elo *)

\* line 32: df.sort_values("date").copy()
ComputeEloSort ==
    /\ prog = "compute_elo" /\ pc = "sort"
    /\ df' \in SortOutcomes(df)
    /\ pc' = "loop"
    /\ UNCHANGED <<prog, input, cols, ratings, out, files, err>>

\* lines 53-58: the actual scores of the two sides, in 1/ONE
HomeScore(row) ==
    IF PyGt(row.home_score, row.away_score) THEN ONE
    ELSE IF PyLt(row.home_score, row.away_score) THEN 0
    ELSE ONE \div 2

\* the away side scored as the home side is
AwayScoreAsHome(row) == HomeScore(row)

AwayScore(row) ==
    IF PyGt(row.home_score, row.away_score) THEN 0
    ELSE IF PyLt(row.home_score, row.away_score) THEN ONE
    ELSE ONE \div 2

ComputeEloEvent(r, row) ==
    LET r_home   == Rating(r, row.home_team)
        r_away   == Rating(Touch(r, row.home_team), row.away_team)
        e_home   == expected_score(r_home, r_away)
        e_away   == ONE - e_home
        s_home   == HomeScore(row)
        s_away   == AwayScore(row)
        k        == get_k_factor(row)
        new_home == Update(r_home, k, s_home, e_home)
        new_away == Update(r_away, k, s_away, e_away)
    IN  [elo_pre_home |-> r_home, elo_pre_away |-> r_away,
         elo_post_home |-> new_home, elo_post_away |-> new_away,
         elo_delta_home |-> new_home - r_home, elo_delta_away |-> new_away - r_away,
         e_home |-> e_home, e_away |-> e_away, s_home |-> s_home, s_away |-> s_away,
         k |-> k]

\* lines 72-73: ratings[home] = new_home, then ratings[away] = new_away
ComputeEloAssign(r, home, away, new_home, new_away) ==
    [t \in DOMAIN r \cup {home, away} |->
        IF t = away THEN new_away ELSE IF t = home THEN new_home ELSE Rating(r, t)]

\* lines 43-73: one iteration of the loop
ComputeEloRow ==
    /\ prog = "compute_elo" /\ pc = "loop" /\ Len(out) < Len(df)
    /\ LET row == df[Len(out) + 1]
           ev  == ComputeEloEvent(ratings, row)
       IN  /\ out' = Append(out, ev)
           /\ ratings' = ComputeEloAssign(ratings, row.home_team, row.away_team,
                                          ev.elo_post_home, ev.elo_post_away)
    /\ UNCHANGED <<prog, pc, input, df, cols, files, err>>

\* lines 75-82: the columns are attached and df is returned
ComputeEloReturn ==
    /\ prog = "compute_elo" /\ pc = "loop" /\ Len(out) = Len(df)
    /\ pc' = "done"
    /\ UNCHANGED <<prog, input, df, cols, ratings, out, files, err>>

NextElo ==
    \/ BuildEloSort
    \/ BuildEloRow
    \/ BuildEloWrite
    \/ ComputeEloSort
    \/ ComputeEloRow
    \/ ComputeEloReturn

SpecElo == InitElo /\ [][NextElo]_vars

\* the loop of build_elo run over `rows` from the dict r: the dict and the events
RECURSIVE BuildEloRun(_, _)
BuildEloRun(r, rows) ==
    IF rows = <<>> THEN [ratings |-> r, out |-> <<>>]
    ELSE LET prev == BuildEloRun(r, SubSeq(rows, 1, Len(rows) - 1))
             row  == rows[Len(rows)]
             ev   == BuildEloEvent(prev.ratings, row)
         IN  [ratings |-> BuildEloAssign(prev.ratings, row.team, row.opponent, ev.elo_post),
              out |-> Append(prev.out, ev)]

\* the loop of compute_elo run over `rows` from the dict r
RECURSIVE ComputeEloRun(_, _)
ComputeEloRun(r, rows) ==
    IF rows = <<>> THEN [ratings |-> r, out |-> <<>>]
    ELSE LET prev == ComputeEloRun(r, SubSeq(rows, 1, Len(rows) - 1))
             row  == rows[Len(rows)]
             ev   == ComputeEloEvent(prev.ratings, row)
         IN  [ratings |-> ComputeEloAssign(prev.ratings, row.home_team, row.away_team,
                                           ev.elo_post_home, ev.elo_post_away),
              out |-> Append(prev.out, ev)]

----------------------------------------------------------------------------
(* compute_elo on a single fixture, over every K-factor context *)

Competitions == {"World Cup", "Rugby World Cup", "world cup", "Test"}
Tiers == {1, 2, 3}

KFixturePool ==
    {[date |-> Num(1987100), home_team |-> "New Zealand", away_team |-> "Fiji",
      home_score |-> Num(1), away_score |-> Num(0),
      competition |-> c, home_tier |-> t1, away_tier |-> t2] :
        c \in Competitions, t1 \in Tiers, t2 \in Tiers}

InitK ==
    /\ prog = "compute_elo"
    /\ input \in {Table(FixtureColumns, <<row>>) : row \in KFixturePool}
    /\ pc = "sort"
    /\ df = input.rows
    /\ cols = input.cols
    /\ ratings = EmptyDict
    /\ out = <<>>
    /\ files = EmptyDict
    /\ err = NoError

NextK ==
    \/ ComputeEloSort
    \/ ComputeEloRow
    \/ ComputeEloReturn

SpecK == InitK /\ [][NextK]_vars

----------------------------------------------------------------------------
(* Claims about the rating engines *)

Base == BASE_ELO * UNIT

MissingScore(row) == IsNaN(row.team_score) \/ IsNaN(row.opponent_score)
MissingFixtureScore(row) == IsNaN(row.home_score) \/ IsNaN(row.away_score)

\* the two team-perspective rows build_dataset.py writes for one fixture
Mirror(a, b) ==
    /\ a.date = b.date /\ a.tournament = b.tournament
    /\ a.team = b.opponent /\ a.opponent = b.team
    /\ a.team_score = b.opponent_score /\ a.opponent_score = b.team_score

\* C1: in build_elo the opponent rating a row reads is the rating the opponent
\* held before the fixture: when the fixture's mirrored row was processed
\* earlier (and no other row of that team lies between), it is the elo_pre of
\* that mirrored row, not its elo_post.
C1_ReadsPreFixtureRatings ==
    prog = "build_elo" =>
        \A i, j \in 1..Len(out) :
            (/\ i < j
             /\ Mirror(df[i], df[j])
             /\ \A m \in (i + 1)..(j - 1) : df[m].team # df[i].team)
            => out[j].r_opp = out[i].elo_pre

\* C2: the pre-match rating recorded on the first processed row in which a team
\* is the rated side is exactly the base value 1500, in both engines.
C2_FirstPreIsBase ==
    /\ prog = "build_elo" =>
          \A j \in 1..Len(out) :
              (\A i \in 1..(j - 1) : df[i].team # df[j].team) => out[j].elo_pre = Base
    /\ prog = "compute_elo" =>
          \A j \in 1..Len(out) :
              /\ (\A i \in 1..(j - 1) : df[j].home_team \notin {df[i].home_team, df[i].away_team})
                     => out[j].elo_pre_home = Base
              /\ (\A i \in 1..(j - 1) : df[j].away_team \notin {df[i].home_team, df[i].away_team})
                     => out[j].elo_pre_away = Base

\* a team first read as the opponent of a row that moved a rating, then rated
C2_Witness ==
    /\ prog = "build_elo" /\ Len(out) = 2
    /\ df[1].opponent = df[2].team /\ df[1].team # df[2].team
    /\ out[1].elo_delta # 0
    /\ out[2].elo_pre = Base

\* C3: one fixture between two unseen teams, A beating B with K = 30: the
\* engine records 1515 for A and 1485 for B, with expected score 0.5 for both,
\* as one fixture row (compute_elo) or as two mirrored rows (build_elo).
C3_FreshWinScenario ==
    /\ (/\ prog = "compute_elo" /\ pc = "done" /\ Len(df) = 1
        /\ PyGt(df[1].home_score, df[1].away_score) /\ out[1].k = 30)
       => (/\ out[1].e_home = ONE \div 2 /\ out[1].e_away = ONE \div 2
           /\ out[1].elo_post_home = 1515 * UNIT /\ out[1].elo_post_away = 1485 * UNIT)
    /\ (/\ prog = "build_elo" /\ pc = "done" /\ Len(df) = 2
        /\ Mirror(df[1], df[2]) /\ {df[1].result, df[2].result} = {"Win", "Loss"})
       => \A j \in 1..2 :
              /\ out[j].exp = ONE \div 2
              /\ out[j].elo_post = IF df[j].result = "Win" THEN 1515 * UNIT ELSE 1485 * UNIT

\* C5: rows that share a date are processed in their input order: past the
\* sort, df is the stable date-sort of the input.
C5_TiesKeepInputOrder ==
    pc # "sort" => df = StableSort(input.rows)

\* C7: a row with a missing score changes no rating: its recorded delta is 0
\* in build_elo and in compute_elo.
C7_MissingScoreExcluded ==
    /\ prog = "build_elo" =>
          \A j \in 1..Len(out) : MissingScore(df[j]) => out[j].elo_delta = 0
    /\ prog = "compute_elo" =>
          \A j \in 1..Len(out) :
              MissingFixtureScore(df[j]) =>
                  out[j].elo_delta_home = 0 /\ out[j].elo_delta_away = 0

\* The engine of this run, as functions of the dict and the rows
RunRatings(r, rows) ==
    IF prog = "build_elo" THEN BuildEloRun(r, rows).ratings ELSE ComputeEloRun(r, rows).ratings

Participants(row) ==
    IF prog = "build_elo" THEN {row.team, row.opponent} ELSE {row.home_team, row.away_team}

\* the teams whose ratings decide the rating P holds after `row`: both sides
\* when the row rates P, P alone when P is only the opponent of a build_elo row
ReadsFor(row, P) ==
    IF prog = "build_elo" /\ row.team # P THEN {P} ELSE Participants(row)

Moved(r, s, teams) == \E t \in teams : Rating(r, t) # Rating(s, t)

\* C6 (as stated): for the last two processed matches a, b, and a participant
\* P they share, the rating P holds after a differs between the orders a,b
\* and b,a, and so does the rating P holds after b.
C6_SwapChangesEachStep ==
    (pc = "done" /\ Len(df) >= 2) =>
        LET n  == Len(df)
            a  == df[n - 1]
            b  == df[n]
            r0 == RunRatings(EmptyDict, SubSeq(df, 1, n - 2))
            ra == RunRatings(r0, <<a>>)
            rb == RunRatings(r0, <<b>>)
        IN  \A P \in Participants(a) \cap Participants(b) :
                /\ Rating(ra, P) # Rating(RunRatings(rb, <<a>>), P)
                /\ Rating(ratings, P) # Rating(rb, P)

\* C6 (amended): the rating P holds after a match differs between the two
\* orders exactly when the match processed before it moved a rating that the
\* match reads for P.
C6_SwapChangesIffReadMoved ==
    (pc = "done" /\ Len(df) >= 2) =>
        LET n  == Len(df)
            a  == df[n - 1]
            b  == df[n]
            r0 == RunRatings(EmptyDict, SubSeq(df, 1, n - 2))
            ra == RunRatings(r0, <<a>>)
            rb == RunRatings(r0, <<b>>)
        IN  \A P \in Participants(a) \cap Participants(b) :
                /\ (Rating(ra, P) # Rating(RunRatings(rb, <<a>>), P))
                       <=> Moved(rb, r0, ReadsFor(a, P))
                /\ (Rating(ratings, P) # Rating(rb, P))
                       <=> Moved(ra, r0, ReadsFor(b, P))

\* two fixtures of compute_elo sharing New Zealand, the first a draw between
\* two unseen sides: it moves no rating, so the second fixture records the same
\* post-match rating for New Zealand in either order
C6_Witness ==
    /\ prog = "compute_elo" /\ pc = "done" /\ Len(df) = 2
    /\ "New Zealand" \in Participants(df[1]) \cap Participants(df[2])
    /\ PyEq(df[1].home_score, df[1].away_score)
    /\ out[1].elo_delta_home = 0 /\ out[1].elo_delta_away = 0
    /\ out[2].elo_delta_home # 0
    /\ Rating(ratings, "New Zealand")
           = Rating(RunRatings(EmptyDict, <<df[2]>>), "New Zealand")

\* C4: the K-factor compute_elo applies to a fixture is 40 when the competition
\* equals "World Cup", otherwise 30 when both tiers are 1, otherwise 25 when
\* the tiers differ, otherwise 20.
C4_KFactorTable ==
    \A j \in 1..Len(out) :
        LET wc     == df[j].competition = "World Cup"
            both1  == df[j].home_tier = 1 /\ df[j].away_tier = 1
            differ == df[j].home_tier # df[j].away_tier
        IN  /\ wc => out[j].k = 40
            /\ (~wc /\ both1) => out[j].k = 30
            /\ (~wc /\ ~both1 /\ differ) => out[j].k = 25
            /\ (~wc /\ ~both1 /\ ~differ) => out[j].k = 20

\* a non-World-Cup fixture between two sides of the same tier, not Tier 1
C4_Witness ==
    /\ Len(out) = 1
    /\ df[1].competition = "Rugby World Cup"
    /\ df[1].home_tier = 3 /\ df[1].away_tier = 3
    /\ out[1].k = 20

----------------------------------------------------------------------------
(* Tables of the dataset builder and of the dashboard's loader.  A row is a  *)
(* function from column names to cells.  A text cell is a string, "NaN" when *)
(* missing (as read_csv reads it); a numeric or date cell is <<v>> or <<>>.  *)

MIN_YEAR == 1987

TIER_1_2_TEAMS ==
    {"New Zealand", "South Africa", "England", "Wales", "Ireland", "France", "Australia",
     "Argentina", "Fiji", "Samoa", "Tonga", "Japan", "Georgia", "Italy", "USA", "Canada"}

BASE_TEAMS ==
    {"New Zealand", "South Africa", "England", "Wales", "Ireland", "France", "Australia",
     "Argentina", "Fiji", "Samoa", "Tonga", "Japan", "Georgia", "Italy", "USA", "Canada"}

TextColumns ==
    {"home_team", "away_team", "team", "opponent", "tournament", "competition",
     "result", "city", "country", "neutral"}

\* the np.nan a missing column is filled with
NaNCell(c) == IF c \in TextColumns THEN "NaN" ELSE NaN

\* c.strip().lower() on the column names the model's files use
StripLower(c) ==
    CASE c = "Date" -> "date"
      [] c = " tournament" -> "tournament"
      [] OTHER -> c

\* pd.to_datetime(text, errors="coerce"): the day as year * 1000 + day of year
to_datetime(text) ==
    CASE text = "1986-06-01" -> Num(1986152)
      [] text = "1987-05-22" -> Num(1987142)
      [] text = "2015-10-31" -> Num(2015304)
      [] text = "2019-11-02" -> Num(2019306)
      [] text = "2022-07-09" -> Num(2022190)
      [] text = "2022-07-16" -> Num(2022197)
      [] text = "2023-10-28" -> Num(2023301)
      [] OTHER -> NaN

\* df.rename(columns=f), f a function on the columns of the row
RenameRow(row, f) ==
    [n \in {f[c] : c \in DOMAIN row} |-> row[CHOOSE c \in DOMAIN row : f[c] = n]]

SetCell(row, c, v) == [x \in DOMAIN row \cup {c} |-> IF x = c THEN v ELSE row[x]]

\* df[columns]
SelectColumns(row, columns) == [c \in columns |-> row[c]]

\* df[mask]: the rows that are in `kept`, in order
SelectRows(rows, kept) ==
    LET idx == {k \in 1..Len(rows) : rows[k] \in kept}
    IN  [j \in 1..Cardinality(idx) |->
            rows[CHOOSE k \in idx : Cardinality({m \in idx : m <= k}) = j]]

\* df["date"] = pd.to_datetime(df["date"], errors="coerce")
CoerceDates(rows) ==
    [k \in 1..Len(rows) |-> SetCell(rows[k], "date", to_datetime(rows[k]["date"]))]

\* df.dropna(subset=["date"])
DropNaT(rows) == SelectRows(rows, {row \in Range(rows) : ~IsNaN(row["date"])})

\* df["year"] = df["date"].dt.year
WithYear(rows) ==
    [k \in 1..Len(rows) |-> SetCell(rows[k], "year", YearOf(rows[k]["date"]))]

ParseDates(rows) == WithYear(DropNaT(CoerceDates(rows)))

\* df[df["year"] >= min_year]
EraFilter(rows, min_year) ==
    SelectRows(rows, {row \in Range(rows) : ~IsNaN(row["year"]) /\ row["year"][1] >= min_year})

\* df[home_team.isin(teams) | away_team.isin(teams)]
TeamFilter(rows, teams) ==
    SelectRows(rows, {row \in Range(rows) :
                         row["home_team"] \in teams \/ row["away_team"] \in teams})

HomeRename(c) ==
    CASE c = "home_team" -> "team"
      [] c = "away_team" -> "opponent"
      [] c = "home_score" -> "team_score"
      [] c = "away_score" -> "opponent_score"
      [] OTHER -> c

AwayRename(c) ==
    CASE c = "away_team" -> "team"
      [] c = "home_team" -> "opponent"
      [] c = "away_score" -> "team_score"
      [] c = "home_score" -> "opponent_score"
      [] OTHER -> c

home_view(rows) ==
    [k \in 1..Len(rows) |-> RenameRow(rows[k], [c \in DOMAIN rows[k] |-> HomeRename(c)])]
\* a second view that renames as the first does
away_view_unswapped(rows) == home_view(rows)
away_view(rows) ==
    [k \in 1..Len(rows) |-> RenameRow(rows[k], [c \in DOMAIN rows[k] |-> AwayRename(c)])]

\* the order of team names in sort_values(["date", "team"])
TeamOrder ==
    <<"Australia", "Chile", "England", "Fiji", "Ireland", "Kenya", "NaN",
      "New Zealand", "South Africa", "nan">>
TeamRank(t) == CHOOSE k \in 1..Len(TeamOrder) : TeamOrder[k] = t

DateTeamLeq(a, b) ==
    \/ a["date"][1] < b["date"][1]
    \/ a["date"][1] = b["date"][1] /\ TeamRank(a["team"]) <= TeamRank(b["team"])

\* sort_values(["date", "team"]): a lexsort, stable
RECURSIVE InsertByDateTeam(_, _)
InsertByDateTeam(s, x) ==
    IF s = <<>> THEN <<x>>
    ELSE IF DateTeamLeq(s[Len(s)], x) THEN Append(s, x)
    ELSE Append(InsertByDateTeam(SubSeq(s, 1, Len(s) - 1), x), s[Len(s)])

RECURSIVE SortDateTeam(_)
SortDateTeam(s) ==
    IF s = <<>> THEN <<>>
    ELSE InsertByDateTeam(SortDateTeam(SubSeq(s, 1, Len(s) - 1)), s[Len(s)])

----------------------------------------------------------------------------
(* The input files of build_dataset.py and load_match_data *)

MaxFixtures == 1

RawDates == {"1986-06-01", "1987-05-22", "n/a"}
RawPairs == {<<"New Zealand", "Chile">>, <<"Chile", "New Zealand">>, <<"Chile", "Kenya">>}
RawScores == {<<Num(2), Num(1)>>, <<Num(1), Num(1)>>, <<NaN, Num(1)>>}

FixtureShape == {"date", "home_team", "away_team", "home_score", "away_score", "tournament"}

\* the column sets of the files: the two shapes, spelled as the sources spell
\* them or differently, and each with a column left out
ColumnSets ==
    {FixtureShape,
     (FixtureShape \ {"tournament"}) \cup {"competition"},
     (FixtureShape \ {"date"}) \cup {"Date"},
     FINAL_COLUMNS,
     FINAL_COLUMNS \ {"date"},
     FINAL_COLUMNS \ {"date", "year"},
     FINAL_COLUMNS \ {"team_score"}}
    \cup {FixtureShape \ {c} : c \in FixtureShape}

\* the cell of column c in the file's row for the fixture (d, p, sp)
RawCell(c, d, p, sp) ==
    CASE c \in {"date", "Date"} -> d
      [] c = "year" -> YearOf(to_datetime(d))
      [] c \in {"home_team", "team"} -> p[1]
      [] c \in {"away_team", "opponent"} -> p[2]
      [] c \in {"home_score", "team_score"} -> sp[1]
      [] c \in {"away_score", "opponent_score"} -> sp[2]
      [] c = "margin" -> PySub(sp[1], sp[2])
      [] c = "result" -> DeriveResult(PySub(sp[1], sp[2]))
      [] OTHER -> "Test"

RawFixtures == RawDates \X RawPairs \X RawScores

RawFiles ==
    {[readable |-> TRUE, cols |-> C,
      rows |-> [k \in 1..Len(fx) |-> [c \in C |-> RawCell(c, fx[k][1], fx[k][2], fx[k][3])]]] :
        C \in ColumnSets, fx \in SeqsUpTo(RawFixtures, MaxFixtures)}

\* no file at the path
NoFile == [readable |-> FALSE, cols |-> {}, rows |-> <<>>]

InitData ==
    /\ prog \in {"build_dataset", "load_match_data"}
    /\ input \in RawFiles \cup {NoFile}
    /\ pc = "load"
    /\ df = <<>>
    /\ cols = {}
    /\ ratings = EmptyDict
    /\ out = <<>>
    /\ files = EmptyDict
    /\ err = NoError

----------------------------------------------------------------------------
(* build_dataset.py: the module body *)

required_cols == {"date", "home_team", "away_team", "home_score", "away_score", "tournament"}

\* lines 47-48: "competition" is renamed when there is no "tournament"
TournamentRename(columns, c) ==
    IF c = "competition" /\ "competition" \in columns /\ "tournament" \notin columns
    THEN "tournament" ELSE c

\* lines 44-48 on the column names
NormalizedColumns(columns) ==
    LET lower == {StripLower(c) : c \in columns}
    IN  {TournamentRename(lower, c) : c \in lower}

\* lines 44-48 on the rows of the table read at line 41
NormalizedRows(table) ==
    LET lower == {StripLower(c) : c \in table.cols}
        f(c)  == TournamentRename(lower, StripLower(c))
    IN  [k \in 1..Len(table.rows) |->
            RenameRow(table.rows[k], [c \in table.cols |-> f(c)])]

\* lines 41-48: read_csv, the column names normalised, "competition" renamed
BD_Load ==
    /\ prog = "build_dataset" /\ pc = "load"
    /\ IF ~input.readable
       THEN /\ err' = Error("FileNotFoundError", {})
            /\ pc' = "failed"
            /\ UNCHANGED <<df, cols>>
       ELSE /\ df' = NormalizedRows(input)
            /\ cols' = NormalizedColumns(input.cols)
            /\ pc' = "check"
            /\ err' = err
    /\ UNCHANGED <<prog, input, ratings, out, files>>

\* lines 50-62: a missing required column raises ValueError naming the columns
BD_CheckColumns ==
    /\ prog = "build_dataset" /\ pc = "check"
    /\ LET missing == required_cols \ cols
       IN  IF missing # {}
           THEN err' = Error("ValueError", missing) /\ pc' = "failed"
           ELSE err' = err /\ pc' = "filter"
    /\ UNCHANGED <<prog, input, df, cols, ratings, out, files>>

\* lines 69-84: dates parsed, undated rows dropped, era and team filters
BD_Filter ==
    /\ prog = "build_dataset" /\ pc = "filter"
    /\ df' = TeamFilter(EraFilter(ParseDates(df), MIN_YEAR), TIER_1_2_TEAMS)
    /\ cols' = cols \cup {"year"}
    /\ pc' = "expand"
    /\ UNCHANGED <<prog, input, ratings, out, files, err>>

\* lines 118-128 on one row of team_df
WithMarginResult(row) ==
    LET margin == PySub(row["team_score"], row["opponent_score"])
    IN  SetCell(SetCell(row, "margin", margin), "result", DeriveResult(margin))

\* lines 92-149: team_df from df
team_df(rows) ==
    LET both    == home_view(rows) \o away_view(rows)
        derived == [k \in 1..Len(both) |->
                       SelectColumns(WithMarginResult(both[k]), FINAL_COLUMNS)]
    IN  SortDateTeam(derived)

\* lines 92-149: the two views, the derived fields, FINAL_COLUMNS, the sort
BD_Expand ==
    /\ prog = "build_dataset" /\ pc = "expand"
    /\ df' = team_df(df)
    /\ cols' = FINAL_COLUMNS
    /\ pc' = "write"
    /\ UNCHANGED <<prog, input, ratings, out, files, err>>

\* lines 155-162: team_df.to_csv(OUTPUT_FILE)
BD_Write ==
    /\ prog = "build_dataset" /\ pc = "write"
    /\ files' = WriteFile(files, "data/rugby_matches.csv", df)
    /\ pc' = "elo"
    /\ UNCHANGED <<prog, input, df, cols, ratings, out, err>>

\* the names the module body has bound when it reaches line 166
ModuleNames ==
    {"pd", "np", "Path", "RAW_INPUT_FILE", "OUTPUT_DIR", "OUTPUT_FILE", "MIN_YEAR",
     "TIER_1_2_TEAMS", "df", "required_cols", "missing", "home_view", "away_view",
     "team_df", "FINAL_COLUMNS", "compute_elo"}

\* lines 164-168: df_matches = compute_elo(df_matches), then to_csv.  The
\* argument is evaluated first: an unbound name raises NameError.
BD_ComputeElo ==
    /\ prog = "build_dataset" /\ pc = "elo"
    /\ IF "df_matches" \in ModuleNames
       THEN /\ files' = WriteFile(files, "data/matches_with_elo.csv", df)
            /\ pc' = "done"
            /\ err' = err
       ELSE /\ err' = Error("NameError", {"df_matches"})
            /\ pc' = "failed"
            /\ files' = files
    /\ UNCHANGED <<prog, input, df, cols, ratings, out>>

----------------------------------------------------------------------------
(* streamlit_app.py: load_match_data *)

LOADER_MIN_YEAR == 1987

DemoColumns ==
    {"date", "home_team", "away_team", "home_score", "away_score", "tournament",
     "city", "country", "neutral"}

DemoRow(date, home, away, hs, as, tournament, city, country, neutral) ==
    [c \in DemoColumns |->
        CASE c = "date" -> date
          [] c = "home_team" -> home
          [] c = "away_team" -> away
          [] c = "home_score" -> Num(hs)
          [] c = "away_score" -> Num(as)
          [] c = "tournament" -> tournament
          [] c = "city" -> city
          [] c = "country" -> country
          [] OTHER -> neutral]

\* lines 59-75: the fallback dataset
DemoData ==
    <<DemoRow("2015-10-31", "New Zealand", "Australia", 34, 17, "Rugby World Cup",
              "London", "England", "True"),
      DemoRow("2019-11-02", "South Africa", "England", 32, 12, "Rugby World Cup",
              "Yokohama", "Japan", "True"),
      DemoRow("2023-10-28", "South Africa", "New Zealand", 12, 11, "Rugby World Cup",
              "Paris", "France", "True"),
      DemoRow("2022-07-09", "New Zealand", "Ireland", 12, 23, "Test Series",
              "Dunedin", "New Zealand", "False"),
      DemoRow("2022-07-16", "New Zealand", "Ireland", 22, 32, "Test Series",
              "Wellington", "New Zealand", "False")>>

keep_cols ==
    {"date", "year", "team", "opponent", "team_score", "opponent_score",
     "tournament", "city", "country", "neutral"}

LegacyColumns == {"team", "opponent", "team_score", "opponent_score"}

\* if col not in df.columns: df[col] = np.nan
FillColumns(row, columns) ==
    [c \in DOMAIN row \cup columns |-> IF c \in DOMAIN row THEN row[c] ELSE NaNCell(c)]

\* lines 40-77: the first readable path, or the fallback dataset
LMD_Read ==
    /\ prog = "load_match_data" /\ pc = "load"
    /\ df' = IF input.readable THEN input.rows ELSE DemoData
    /\ cols' = IF input.readable THEN input.cols ELSE DemoColumns
    /\ pc' = "shape"
    /\ UNCHANGED <<prog, input, ratings, out, files, err>>

\* lines 81-121: the home/away branch
FixtureBranch(rows) ==
    LET kept == TeamFilter(EraFilter(ParseDates(rows), LOADER_MIN_YEAR), BASE_TEAMS)
        home_df == home_view(kept)
        away_df == away_view(kept)
    IN  [k \in 1..Len(home_df) |-> SelectColumns(FillColumns(home_df[k], keep_cols), keep_cols)]
        \o [k \in 1..Len(away_df) |-> SelectColumns(FillColumns(away_df[k], keep_cols), keep_cols)]

\* lines 125-140: the team/opponent branch
LegacyBranch(rows, columns) ==
    LET dated ==
            IF "date" \in columns THEN ParseDates(rows)
            ELSE IF "year" \notin columns
                 THEN [k \in 1..Len(rows) |-> SetCell(rows[k], "year", NaN)]
                 ELSE rows
        filled == [k \in 1..Len(dated) |-> FillColumns(dated[k], LegacyColumns)]
    IN  EraFilter(filled, LOADER_MIN_YEAR)

\* lines 79-140: the table is brought to the team/opponent schema
LMD_Normalize ==
    /\ prog = "load_match_data" /\ pc = "shape"
    /\ IF "home_team" \in cols /\ "away_team" \in cols
       THEN IF "date" \notin cols
            THEN /\ err' = Error("KeyError", {"date"})
                 /\ pc' = "failed"
                 /\ UNCHANGED <<df, cols>>
            ELSE /\ df' = FixtureBranch(df)
                 /\ cols' = keep_cols
                 /\ pc' = "derive"
                 /\ err' = err
       ELSE /\ df' = LegacyBranch(df, cols)
            /\ cols' = cols \cup {"year"} \cup LegacyColumns
            /\ pc' = "derive"
            /\ err' = err
    /\ UNCHANGED <<prog, input, ratings, out, files>>

\* lines 145-151: np.select on the two scores
LoaderResult(team_score, opponent_score) ==
    IF PyGt(team_score, opponent_score) THEN "Win"
    ELSE IF PyLt(team_score, opponent_score) THEN "Loss"
    ELSE IF PyEq(team_score, opponent_score) THEN "Draw"
    ELSE "Unknown"

\* astype(str) of a text cell: a missing one becomes the string "nan"
AsStr(cell) == IF cell = "NaN" THEN "nan" ELSE cell

StringColumns == {"tournament", "city", "country", "team", "opponent"}

\* lines 143-156 on one row (both score columns exist past LMD_Normalize)
LoaderDerived(row) ==
    LET scored == SetCell(SetCell(row, "margin", PySub(row["team_score"], row["opponent_score"])),
                          "result", LoaderResult(row["team_score"], row["opponent_score"]))
    IN  [c \in DOMAIN scored |-> IF c \in StringColumns THEN AsStr(scored[c]) ELSE scored[c]]

\* lines 142-158: margin and result, the text columns stringified, df returned
LMD_Derive ==
    /\ prog = "load_match_data" /\ pc = "derive"
    /\ df' = [k \in 1..Len(df) |-> LoaderDerived(df[k])]
    /\ cols' = cols \cup {"margin", "result"}
    /\ pc' = "done"
    /\ UNCHANGED <<prog, input, ratings, out, files, err>>

NextData ==
    \/ BD_Load
    \/ BD_CheckColumns
    \/ BD_Filter
    \/ BD_Expand
    \/ BD_Write
    \/ BD_ComputeElo
    \/ LMD_Read
    \/ LMD_Normalize
    \/ LMD_Derive

SpecData == InitData /\ [][NextData]_vars

----------------------------------------------------------------------------
(* streamlit_app.py: the script body, its Rankings tab and its Compare tab.  *)
(* A quotient of two integers (a mean, a percentage) is the cell <<n, d>>:   *)
(* float division is correctly rounded, so two quotients of small integers   *)
(* are equal or ordered as floats exactly as they are as fractions.          *)

Frac(n, d) == <<n, d>>

\* a < b, a = b on quotients with positive denominators
FracLt(a, b) == a[1] * b[2] < b[1] * a[2]
FracEq(a, b) == a[1] * b[2] = b[1] * a[2]

\* lines 27-158 as a function of the table at the data path
load_match_data(table) ==
    LET rows0 == IF table.readable THEN table.rows ELSE DemoData
        cols0 == IF table.readable THEN table.cols ELSE DemoColumns
    IN  IF "home_team" \in cols0 /\ "away_team" \in cols0
        THEN IF "date" \notin cols0
             THEN [ok |-> FALSE, rows |-> <<>>, cols |-> {}]
             ELSE LET norm == FixtureBranch(rows0)
                  IN  [ok |-> TRUE,
                       rows |-> [k \in 1..Len(norm) |-> LoaderDerived(norm[k])],
                       cols |-> keep_cols \cup {"margin", "result"}]
        ELSE LET norm == LegacyBranch(rows0, cols0)
             IN  [ok |-> TRUE,
                  rows |-> [k \in 1..Len(norm) |-> LoaderDerived(norm[k])],
                  cols |-> cols0 \cup {"year"} \cup LegacyColumns \cup {"margin", "result"}]

\* line 167: the teams the select boxes offer
teams(rows) ==
    BASE_TEAMS \cup {rows[k]["team"] : k \in 1..Len(rows)}
               \cup {rows[k]["opponent"] : k \in 1..Len(rows)}

\* the number of rows of the table whose column c holds v
CountEq(rows, c, v) == Cardinality({k \in 1..Len(rows) : rows[k][c] = v})

\* Series.sum(): missing values are skipped
RECURSIVE SumColumn(_, _)
SumColumn(rows, c) ==
    IF rows = <<>> THEN 0
    ELSE SumColumn(SubSeq(rows, 1, Len(rows) - 1), c)
         + (IF IsNaN(rows[Len(rows)][c]) THEN 0 ELSE rows[Len(rows)][c][1])

\* Series.mean(): the mean of the values present, NaN when there is none
Mean(rows, c) ==
    LET present == Cardinality({k \in 1..Len(rows) : ~IsNaN(rows[k][c])})
    IN  IF present = 0 THEN NaN ELSE Frac(SumColumn(rows, c), present)

team_summary(df_team) ==
    LET total_matches == Len(df_team)
        wins == CountEq(df_team, "result", "Win")
    IN  [matches |-> total_matches,
         wins |-> wins,
         losses |-> CountEq(df_team, "result", "Loss"),
         draws |-> CountEq(df_team, "result", "Draw"),
         win_pct |-> IF total_matches > 0 THEN Frac(wins * 100, total_matches) ELSE Frac(0, 1),
         avg_margin |-> Mean(df_team, "margin"),
         avg_for |-> Mean(df_team, "team_score"),
         avg_against |-> Mean(df_team, "opponent_score")]

head_to_head(df_all, team_a, team_b) ==
    SelectRows(df_all, {row \in Range(df_all) :
        \/ row["team"] = team_a /\ row["opponent"] = team_b
        \/ row["team"] = team_b /\ row["opponent"] = team_a})

\* the rename of lines 432-439 and 449-456: margin and result keep their names
SwapRename(c) ==
    CASE c = "team" -> "opponent"
      [] c = "opponent" -> "team"
      [] c = "team_score" -> "opponent_score"
      [] c = "opponent_score" -> "team_score"
      [] OTHER -> c

\* lines 427-443 for team_a, lines 447-459 for team_b: the rows where the team
\* is `team`, then the rows where it is `opponent` with the columns renamed
a_norm(h2h_df, team) ==
    LET as_team == SelectRows(h2h_df, {row \in Range(h2h_df) : row["team"] = team})
        as_opp  == SelectRows(h2h_df, {row \in Range(h2h_df) : row["opponent"] = team})
    IN  as_team \o [k \in 1..Len(as_opp) |->
                       RenameRow(as_opp[k], [c \in DOMAIN as_opp[k] |-> SwapRename(c)])]

\* groupby("team"): the group keys, in sorted order
GroupKeys(rows) ==
    LET S == {rows[k]["team"] : k \in 1..Len(rows)}
    IN  [j \in 1..Cardinality(S) |->
            CHOOSE x \in S : Cardinality({u \in S : TeamRank(u) <= TeamRank(x)}) = j]

\* lines 208-215: one row per group, and win_pct
grouped(df_all) ==
    LET keys == GroupKeys(df_all)
    IN  [j \in 1..Len(keys) |->
            LET g == SelectRows(df_all, {row \in Range(df_all) : row["team"] = keys[j]})
                wins == CountEq(g, "result", "Win")
            IN  [team |-> keys[j],
                 matches |-> Len(g),
                 wins |-> wins,
                 losses |-> CountEq(g, "result", "Loss"),
                 draws |-> CountEq(g, "result", "Draw"),
                 avg_margin |-> Mean(g, "margin"),
                 win_pct |-> Frac(wins * 100, Len(g))]]

\* the order of sort_values(by=["win_pct", "avg_margin", "matches"], all
\* descending): a missing avg_margin sorts after every value (na_position="last")
MarginBefore(a, b) ==
    ~IsNaN(a.avg_margin) /\ (IsNaN(b.avg_margin) \/ FracLt(b.avg_margin, a.avg_margin))
MarginTie(a, b) ==
    \/ IsNaN(a.avg_margin) /\ IsNaN(b.avg_margin)
    \/ ~IsNaN(a.avg_margin) /\ ~IsNaN(b.avg_margin) /\ FracEq(a.avg_margin, b.avg_margin)
\* an order on win_pct alone
RankBeforeByWinPct(a, b) == FracLt(b.win_pct, a.win_pct)
RankBefore(a, b) ==
    \/ FracLt(b.win_pct, a.win_pct)
    \/ /\ FracEq(a.win_pct, b.win_pct)
       /\ \/ MarginBefore(a, b)
          \/ MarginTie(a, b) /\ a.matches > b.matches

\* the sort on several columns is a lexsort: rows with equal keys keep their order
RECURSIVE InsertRanked(_, _)
InsertRanked(s, x) ==
    IF s = <<>> THEN <<x>>
    ELSE IF ~RankBefore(x, s[Len(s)]) THEN Append(s, x)
    ELSE Append(InsertRanked(SubSeq(s, 1, Len(s) - 1), x), s[Len(s)])

RECURSIVE SortRanked(_)
SortRanked(s) ==
    IF s = <<>> THEN <<>>
    ELSE InsertRanked(SortRanked(SubSeq(s, 1, Len(s) - 1)), s[Len(s)])

aggregate_rankings(df_all, columns) ==
    IF "result" \notin columns THEN <<>>
    ELSE LET ranked == SortRanked(grouped(df_all))
         IN  [j \in 1..Len(ranked) |->
                 [rank |-> j,
                  team |-> ranked[j].team,
                  matches |-> ranked[j].matches,
                  wins |-> ranked[j].wins,
                  losses |-> ranked[j].losses,
                  draws |-> ranked[j].draws,
                  win_pct |-> ranked[j].win_pct,
                  avg_margin |-> ranked[j].avg_margin]]

\* the tables at the data path, and the teams chosen in the Compare tab
MaxViewFixtures == 2

ViewPairs == {<<"New Zealand", "Chile">>, <<"Chile", "New Zealand">>, <<"Fiji", "New Zealand">>}
ViewScores == {<<Num(2), Num(1)>>, <<Num(1), Num(1)>>, <<Num(1), Num(3)>>, <<NaN, Num(1)>>}
ViewFixtures == {"1987-05-22"} \X ViewPairs \X ViewScores
ViewColumnSets == {FixtureShape, FINAL_COLUMNS, FixtureShape \ {"date"}}

ViewFiles ==
    {[readable |-> TRUE, cols |-> C,
      rows |-> [k \in 1..Len(fx) |-> [c \in C |-> RawCell(c, fx[k][1], fx[k][2], fx[k][3])]]] :
        C \in ViewColumnSets, fx \in SeqsUpTo(ViewFixtures, MaxViewFixtures)}

CompareTeams == {"New Zealand", "Chile", "Fiji", "Japan"}

InitView ==
    /\ prog = "streamlit_app"
    /\ input \in ViewFiles \cup {NoFile}
    /\ pc = "load"
    /\ df = <<>>
    /\ cols = {}
    /\ ratings = EmptyDict
    /\ out = <<>>
    /\ files = EmptyDict
    /\ err = NoError

\* line 161: df = load_match_data()
ViewLoad ==
    /\ prog = "streamlit_app" /\ pc = "load"
    /\ LET loaded == load_match_data(input)
       IN  IF loaded.ok
           THEN df' = loaded.rows /\ cols' = loaded.cols /\ pc' = "rankings" /\ err' = err
           ELSE err' = Error("KeyError", {"date"}) /\ pc' = "failed" /\ UNCHANGED <<df, cols>>
    /\ UNCHANGED <<prog, input, ratings, out, files>>

\* lines 312-315: the Rankings tab computes rankings_df
ViewRankings ==
    /\ prog = "streamlit_app" /\ pc = "rankings"
    /\ out' = Append(out, [tab |-> "rankings", rankings_df |-> aggregate_rankings(df, cols)])
    /\ pc' = "compare"
    /\ UNCHANGED <<prog, input, df, cols, ratings, files, err>>

\* lines 400-459: the Compare tab for the two chosen teams
ViewCompare ==
    /\ prog = "streamlit_app" /\ pc = "compare"
    /\ \E team_a \in CompareTeams \cap teams(df), team_b \in CompareTeams \cap teams(df) :
          LET h2h_df == head_to_head(df, team_a, team_b)
              a_has_data == \E k \in 1..Len(df) : df[k]["team"] = team_a
              b_has_data == \E k \in 1..Len(df) : df[k]["team"] = team_b
              shown ==
                  IF team_a = team_b THEN "same_team"
                  ELSE IF ~a_has_data \/ ~b_has_data THEN "no_data"
                  ELSE IF h2h_df = <<>> THEN "no_head_to_head"
                  ELSE "metrics"
              a_rows == IF shown = "metrics" THEN a_norm(h2h_df, team_a) ELSE <<>>
              b_rows == IF shown = "metrics" THEN a_norm(h2h_df, team_b) ELSE <<>>
          IN  out' = Append(out, [tab |-> "compare", team_a |-> team_a, team_b |-> team_b,
                                  shown |-> shown,
                                  a_norm |-> a_rows, b_norm |-> b_rows,
                                  a_summary |-> team_summary(a_rows),
                                  b_summary |-> team_summary(b_rows)])
    /\ pc' = "done"
    /\ UNCHANGED <<prog, input, df, cols, ratings, files, err>>

NextView ==
    \/ ViewLoad
    \/ ViewRankings
    \/ ViewCompare

SpecView == InitView /\ [][NextView]_vars

----------------------------------------------------------------------------
(* Claims about the dataset builder and the loader *)

\* C8: a run of build_dataset.py that fails has written no output file.
C8_NoPartialOutput ==
    (prog = "build_dataset" /\ pc = "failed") => DOMAIN files = {}

\* the required columns the input table lacks: for build_dataset.py after its
\* normalisation of the names, for load_match_data those of the table's shape
MissingColumns ==
    IF prog = "build_dataset" THEN required_cols \ NormalizedColumns(input.cols)
    ELSE IF "home_team" \in input.cols /\ "away_team" \in input.cols
         THEN FixtureShape \ input.cols
         ELSE {"date", "team", "opponent", "team_score", "opponent_score", "tournament"}
                  \ input.cols

\* C9: when the input table lacks a required column, the run fails with an
\* error naming the missing columns, and returns or writes no table.
C9_MissingColumnIsFatal ==
    (input.readable /\ MissingColumns # {}) =>
        /\ pc # "done"
        /\ DOMAIN files = {}
        /\ pc = "failed" => err.names = MissingColumns

\* the normalised output: the file build_dataset.py wrote, the table
\* load_match_data returned
Output ==
    IF prog = "build_dataset"
    THEN IF "data/rugby_matches.csv" \in DOMAIN files
         THEN files["data/rugby_matches.csv"] ELSE <<>>
    ELSE IF pc = "done" THEN df ELSE <<>>

\* C10: for an input table of either shape that has all its columns, every
\* row of the normalised output is dated 1987 or later and has an eligible
\* nation as its team or its opponent.
C10_EraAndEligibility ==
    (input.readable /\ MissingColumns = {}) =>
    \A k \in 1..Len(Output) :
        /\ ~IsNaN(Output[k]["year"]) /\ Output[k]["year"][1] >= 1987
        /\ Output[k]["team"] \in TIER_1_2_TEAMS \/ Output[k]["opponent"] \in TIER_1_2_TEAMS

\* the program has produced its normalised output
Produced ==
    IF prog = "build_dataset" THEN "data/rugby_matches.csv" \in DOMAIN files
    ELSE pc = "done"

\* the table is of the home/away shape and has all its columns (the loader's
\* fallback dataset is such a table)
FixtureInput ==
    IF input.readable
    THEN MissingColumns = {} /\ {"home_team", "away_team"} \subseteq input.cols
    ELSE prog = "load_match_data"

\* the fixtures of the input table that pass the program's filters
KeptFixtures ==
    IF prog = "build_dataset"
    THEN TeamFilter(EraFilter(ParseDates(NormalizedRows(input)), MIN_YEAR), TIER_1_2_TEAMS)
    ELSE TeamFilter(EraFilter(ParseDates(IF input.readable THEN input.rows ELSE DemoData),
                              LOADER_MIN_YEAR), BASE_TEAMS)

Side(date, team, opponent, team_score, opponent_score) ==
    [date |-> date, team |-> team, opponent |-> opponent,
     team_score |-> team_score, opponent_score |-> opponent_score]

\* a fixture seen by its home side, by its away side; an output row's side
HomeSide(f) ==
    Side(f["date"], f["home_team"], f["away_team"], f["home_score"], f["away_score"])
AwaySide(f) ==
    Side(f["date"], f["away_team"], f["home_team"], f["away_score"], f["home_score"])
SideOf(row) ==
    Side(row["date"], row["team"], row["opponent"], row["team_score"], row["opponent_score"])

\* the output has as many rows as twice the kept fixtures, and as many rows of
\* each side as there are kept fixtures with that side
TwoRowsPerFixture ==
    /\ Len(Output) = 2 * Len(KeptFixtures)
    /\ \A v \in {SideOf(Output[k]) : k \in 1..Len(Output)}
               \cup {HomeSide(KeptFixtures[j]) : j \in 1..Len(KeptFixtures)}
               \cup {AwaySide(KeptFixtures[j]) : j \in 1..Len(KeptFixtures)} :
           Cardinality({k \in 1..Len(Output) : SideOf(Output[k]) = v})
             = Cardinality({j \in 1..Len(KeptFixtures) : HomeSide(KeptFixtures[j]) = v})
               + Cardinality({j \in 1..Len(KeptFixtures) : AwaySide(KeptFixtures[j]) = v})

Swapped(a, b) ==
    /\ a["team"] = b["opponent"] /\ a["opponent"] = b["team"]
    /\ a["team_score"] = b["opponent_score"] /\ a["opponent_score"] = b["team_score"]

\* b mirrors a: sides swapped, margins opposite, results complementary
MirroredRows(a, b) ==
    /\ Swapped(a, b)
    /\ ~IsNaN(a["margin"]) /\ ~IsNaN(b["margin"]) /\ b["margin"][1] = 0 - a["margin"][1]
    /\ <<a["result"], b["result"]>> \in {<<"Win", "Loss">>, <<"Loss", "Win">>, <<"Draw", "Draw">>}

\* the two rows of a fixture that lacks a score
UnscoredRows(a, b) ==
    /\ Swapped(a, b)
    /\ IsNaN(a["margin"]) /\ IsNaN(b["margin"])
    /\ a["result"] = "Unknown" /\ b["result"] = "Unknown"

Scored(f) == ~IsNaN(f["home_score"]) /\ ~IsNaN(f["away_score"])

\* C11 (as stated): every home/away fixture that passes the filters yields
\* exactly two output rows, one per participant, that mirror each other (team
\* and opponent swapped, scores swapped, margins opposite, Win with Loss or
\* Draw with Draw), and the output has twice as many rows as kept fixtures.
C11_FixtureYieldsMirroredPair ==
    (Produced /\ FixtureInput) =>
        /\ TwoRowsPerFixture
        /\ \A j \in 1..Len(KeptFixtures), ka \in 1..Len(Output), kb \in 1..Len(Output) :
               (SideOf(Output[ka]) = HomeSide(KeptFixtures[j])
                    /\ SideOf(Output[kb]) = AwaySide(KeptFixtures[j]))
               => MirroredRows(Output[ka], Output[kb])

\* C11 (amended): every kept home/away fixture yields exactly two output
\* rows, one per participant, with team, opponent and scores swapped, and the
\* output has twice as many rows as kept fixtures; the two rows of a fixture
\* with both scores have opposite margins and complementary results, the two
\* rows of a fixture lacking a score both have no margin and result Unknown.
C11_ScoredFixtureYieldsMirroredPair ==
    (Produced /\ FixtureInput) =>
        /\ TwoRowsPerFixture
        /\ \A j \in 1..Len(KeptFixtures), ka \in 1..Len(Output), kb \in 1..Len(Output) :
               (SideOf(Output[ka]) = HomeSide(KeptFixtures[j])
                    /\ SideOf(Output[kb]) = AwaySide(KeptFixtures[j]))
               => IF Scored(KeptFixtures[j])
                  THEN MirroredRows(Output[ka], Output[kb])
                  ELSE UnscoredRows(Output[ka], Output[kb])

\* a kept fixture with both scores and a winner has been expanded
C11_Witness ==
    /\ Produced /\ FixtureInput /\ input.readable
    /\ Len(KeptFixtures) >= 1
    /\ Scored(KeptFixtures[1])
    /\ \E ka \in 1..Len(Output), kb \in 1..Len(Output) :
           /\ SideOf(Output[ka]) = HomeSide(KeptFixtures[1])
           /\ SideOf(Output[kb]) = AwaySide(KeptFixtures[1])
           /\ Output[ka]["result"] = "Win" /\ Output[kb]["result"] = "Loss"

----------------------------------------------------------------------------
(* Claims about the dashboard *)

\* every row is team v opponent and its result and margin are those of its scores
ReadsFrom(rows, team, opponent) ==
    \A k \in 1..Len(rows) :
        /\ rows[k]["team"] = team /\ rows[k]["opponent"] = opponent
        /\ rows[k]["result"] = "Win" <=> PyGt(rows[k]["team_score"], rows[k]["opponent_score"])
        /\ rows[k]["result"] = "Loss" <=> PyLt(rows[k]["team_score"], rows[k]["opponent_score"])
        /\ rows[k]["margin"] = PySub(rows[k]["team_score"], rows[k]["opponent_score"])

\* C12: in the Compare tab's head-to-head metrics for two distinct teams A and
\* B, every row of the table normalised to A has team = A, opponent = B, and a
\* result and a margin that agree with its own scores; the same holds for the
\* table normalised to B.
C12_NormalizedRowsAgreeWithScores ==
    prog = "streamlit_app" =>
        \A i \in 1..Len(out) :
            (out[i].tab = "compare" /\ out[i].shown = "metrics") =>
                /\ ReadsFrom(out[i].a_norm, out[i].team_a, out[i].team_b)
                /\ ReadsFrom(out[i].b_norm, out[i].team_b, out[i].team_a)

\* the table has one row per team of the data, ranked 1..n in row order
OneRowPerTeam(tbl, rows) ==
    /\ {tbl[j].team : j \in 1..Len(tbl)} = {rows[k]["team"] : k \in 1..Len(rows)}
    /\ Len(tbl) = Cardinality({rows[k]["team"] : k \in 1..Len(rows)})
    /\ \A j \in 1..Len(tbl) : tbl[j].rank = j

\* comparisons of two mean margins as Python makes them: False when one is NaN
MarginGt(a, b) == ~IsNaN(a) /\ ~IsNaN(b) /\ FracLt(b, a)
MarginEq(a, b) == ~IsNaN(a) /\ ~IsNaN(b) /\ FracEq(a, b)

\* (win_pct, avg_margin, matches) of a is lexicographically >= that of b
KeyGeq(a, b) ==
    \/ FracLt(b.win_pct, a.win_pct)
    \/ /\ FracEq(a.win_pct, b.win_pct)
       /\ \/ MarginGt(a.avg_margin, b.avg_margin)
          \/ MarginEq(a.avg_margin, b.avg_margin) /\ a.matches >= b.matches

\* the same, a missing mean margin counting as equal to a missing one and as
\* less than every value
KeyGeqMissingLast(a, b) ==
    \/ FracLt(b.win_pct, a.win_pct)
    \/ /\ FracEq(a.win_pct, b.win_pct)
       /\ \/ MarginGt(a.avg_margin, b.avg_margin)
          \/ ~IsNaN(a.avg_margin) /\ IsNaN(b.avg_margin)
          \/ /\ MarginEq(a.avg_margin, b.avg_margin)
                   \/ (IsNaN(a.avg_margin) /\ IsNaN(b.avg_margin))
             /\ a.matches >= b.matches

\* C13 (as stated): aggregate_rankings returns one row per team with ranks
\* 1..n in row order, and the key (win_pct, avg_margin, matches) of each row is
\* lexicographically greater than or equal to that of the next row.
C13_RankedByKey ==
    prog = "streamlit_app" =>
        \A i \in 1..Len(out) :
            out[i].tab = "rankings" =>
                /\ OneRowPerTeam(out[i].rankings_df, df)
                /\ \A j \in 1..(Len(out[i].rankings_df) - 1) :
                       KeyGeq(out[i].rankings_df[j], out[i].rankings_df[j + 1])

\* C13 (amended): aggregate_rankings returns one row per team with ranks 1..n
\* in row order, and the key (win_pct, avg_margin, matches) of each row is
\* lexicographically greater than or equal to that of the next row when a
\* team without a mean margin (all its scores missing) is placed after the
\* teams of equal win % that have one, and by matches among such teams.
C13_RankedByKeyMissingLast ==
    prog = "streamlit_app" =>
        \A i \in 1..Len(out) :
            out[i].tab = "rankings" =>
                /\ OneRowPerTeam(out[i].rankings_df, df)
                /\ \A j \in 1..(Len(out[i].rankings_df) - 1) :
                       KeyGeqMissingLast(out[i].rankings_df[j], out[i].rankings_df[j + 1])

\* two teams of equal win % have been ordered by their mean margins, against
\* the order of their names
C13_Witness ==
    /\ prog = "streamlit_app" /\ Len(out) >= 1 /\ out[1].tab = "rankings"
    /\ \E j \in 1..(Len(out[1].rankings_df) - 1) :
          /\ FracEq(out[1].rankings_df[j].win_pct, out[1].rankings_df[j + 1].win_pct)
          /\ MarginGt(out[1].rankings_df[j].avg_margin, out[1].rankings_df[j + 1].avg_margin)
          /\ TeamRank(out[1].rankings_df[j].team) > TeamRank(out[1].rankings_df[j + 1].team)

----------------------------------------------------------------------------
(* Claims about the rating map and the rating changes *)

\* elo_post of the last of the first n processed rows of build_elo whose team
\* is t, the base rating when there is none
LatestPost(t, n) ==
    LET idx == {k \in 1..n : df[k].team = t}
    IN  IF idx = {} THEN Base
        ELSE out[CHOOSE k \in idx : \A m \in idx : m <= k].elo_post

\* C14: after build_elo has processed any prefix of the sorted rows, the
\* rating of each team in the map is the elo_post of the latest processed row
\* whose team it is, or 1500 when there is none (so a row changes the rating of
\* its team only), and elo_pre of a row is elo_post of its team's previous row.
C14_MapHoldsLatestPost ==
    prog = "build_elo" =>
        /\ \A t \in {df[k].team : k \in 1..Len(df)} \cup {df[k].opponent : k \in 1..Len(df)}
                    \cup DOMAIN ratings :
               Rating(ratings, t) = LatestPost(t, Len(out))
        /\ \A j \in 1..Len(out) : out[j].elo_pre = LatestPost(df[j].team, j - 1)

\* a team rated twice, its first row having moved its rating, while its
\* opponent was read both times and still holds the base rating
C14_Witness ==
    /\ prog = "build_elo" /\ Len(out) = 2
    /\ df[1].team = df[2].team /\ df[1].opponent = df[2].opponent
    /\ out[1].elo_delta # 0
    /\ out[2].elo_pre = out[1].elo_post
    /\ ratings[df[2].team] = out[2].elo_post
    /\ ratings[df[2].opponent] = Base

\* d lies in [lo, hi] rating points, d in 1/UNIT and the bounds in halves of a point
Within(d, lo2, hi2) == lo2 * UNIT <= 2 * d /\ 2 * d <= hi2 * UNIT

\* C15: for every row either engine processes, the rating change is at most
\* the match's K-factor in magnitude and has the sign of the result: in [0, K]
\* for a win, in [-K, 0] for a loss, in [-K/2, K/2] for a draw (K = 30 in
\* build_elo, the get_k_factor value in compute_elo).
C15_DeltaWithinK ==
    /\ prog = "build_elo" =>
          \A j \in 1..Len(out) :
              /\ Within(out[j].elo_delta, -2 * K, 2 * K)
              /\ df[j].result = "Win" => Within(out[j].elo_delta, 0, 2 * K)
              /\ df[j].result = "Loss" => Within(out[j].elo_delta, -2 * K, 0)
              /\ df[j].result = "Draw" => Within(out[j].elo_delta, -K, K)
    /\ prog = "compute_elo" =>
          \A j \in 1..Len(out) :
              LET k  == get_k_factor(df[j])
                  dh == out[j].elo_delta_home
                  da == out[j].elo_delta_away
              IN  /\ Within(dh, -2 * k, 2 * k) /\ Within(da, -2 * k, 2 * k)
                  /\ PyGt(df[j].home_score, df[j].away_score)
                         => Within(dh, 0, 2 * k) /\ Within(da, -2 * k, 0)
                  /\ PyLt(df[j].home_score, df[j].away_score)
                         => Within(dh, -2 * k, 0) /\ Within(da, 0, 2 * k)
                  /\ PyEq(df[j].home_score, df[j].away_score)
                         => Within(dh, -k, k) /\ Within(da, -k, k)

\* a World Cup fixture (K = 40) won by the lower rated side: more than K/2 changes hands
C15_Witness ==
    /\ prog = "compute_elo" /\ Len(out) = 2
    /\ get_k_factor(df[2]) = 40
    /\ PyGt(df[2].home_score, df[2].away_score)
    /\ out[2].elo_pre_home < out[2].elo_pre_away
    /\ out[2].elo_delta_home > 20 * UNIT
    /\ out[2].elo_delta_away < 0 - 20 * UNIT

\* the sum of the ratings of the teams in S
RECURSIVE SumRatings(_, _)
SumRatings(r, S) ==
    IF S = {} THEN 0
    ELSE LET x == CHOOSE y \in S : TRUE
         IN  r[x] + SumRatings(r, S \ {x})

\* C16: in compute_elo, for every fixture between two different teams the
\* expected scores add up to 1 and so do the actual scores, hence the two
\* rating changes add up to 0; after any number of such fixtures the ratings
\* in the map add up to 1500 times the number of teams seen.
C16_RatingPointsConserved ==
    prog = "compute_elo" =>
        /\ \A j \in 1..Len(out) :
               df[j].home_team # df[j].away_team =>
                   /\ out[j].e_home + out[j].e_away = ONE
                   /\ out[j].s_home + out[j].s_away = ONE
                   /\ out[j].elo_delta_home + out[j].elo_delta_away = 0
        /\ (\A j \in 1..Len(out) : df[j].home_team # df[j].away_team) =>
               SumRatings(ratings, DOMAIN ratings) = Base * Cardinality(DOMAIN ratings)

\* two fixtures over three teams have both moved ratings, the second between
\* unequally rated sides
C16_Witness ==
    /\ prog = "compute_elo" /\ Len(out) = 2
    /\ Cardinality(DOMAIN ratings) = 3
    /\ out[1].elo_delta_home # 0 /\ out[2].elo_delta_home # 0
    /\ out[2].elo_pre_home # out[2].elo_pre_away
    /\ out[2].e_home # ONE \div 2
    /\ \A x \in DOMAIN ratings : ratings[x] # Base
    /\ SumRatings(ratings, DOMAIN ratings) = 3 * Base

====
